---- MODULE Spec2Model ----
(***************************************************************************)
(* A model of the glucose-logging web application of src/app.py: the two   *)
(* tables (user, glucose_entry), the cookie session of each browser, and   *)
(* one action per route handler.  A form text is a tuple of one-character  *)
(* strings; None is Python's None (request.form.get of an absent field).   *)
(* The columns medication and notes of GlucoseEntry are stored as given    *)
(* and read by no query or condition of app.py; the model leaves them out. *)
(***************************************************************************)
EXTENDS Integers, Sequences, FiniteSets, TLC

VARIABLES
    users,      \* table user: sequence of rows, in order of insertion
    entries,    \* table glucose_entry: sequence of rows, in order of insertion
    session,    \* per browser: the user id kept in the session cookie, 0 = none
    inflight,   \* per browser: a register POST between its existence check and its commit
    resp,       \* the response to the most recent request
    unseen,     \* per user id: ids of the entries the user stored since the user's last dashboard GET
    loggedOut,  \* per browser: TRUE from a logout until the next successful login
    posts,      \* number of rows this run has added to glucose_entry
    registered  \* per row of user: the password submitted at its registration

vars == <<users, entries, session, inflight, resp, unseen, loggedOut, posts, registered>>

\* ---------------------------------------------------------------- bounds

\* Number of dashboard POSTs that store an entry in one run.
MaxPosts == 1

\* Size of the largest pre-populated glucose_entry table of InitDash.
MaxSeed == 35

\* ------------------------------------------------------------- constants

\* .limit(30) of the dashboard query.
Limit == 30

Clients == {"c1", "c2"}

None == <<"None">>

Emails == {<<"a">>, <<"b">>}

Passwords == {<<"p">>, <<"q">>}

\* The salt generate_password_hash draws for the n-th row of user: a fresh
\* one for every row, so equal passwords do not give equal hashes.
Salt(n) == <<"salt", n>>

UserIds == 1..Cardinality(Emails)

NoReg == [email |-> None, password |-> None]

Digits == {"5", "7"}

\* glucose_value texts a dashboard form may carry.
GlucoseInputs ==
    { None, <<>>, <<".">>, <<"5">>, <<"5", ".">>, <<"5", "x">>, <<"7", ".", "5">> }

\* The texts among them a run of the whole application submits.
GlucoseTexts == {None, <<".">>, <<"5">>, <<"5", ".">>, <<"5", "x">>}

\* ---------------------------------------------------------------- helpers

Range(s) == {s[i] : i \in DOMAIN s}

MinOf(a, b) == IF a < b THEN a ELSE b

\* Python truthiness of a form value: None and "" are falsy.
Falsy(v) == v = None \/ v = <<>>

\* generate_password_hash(password): a salted digest, never the plaintext.
Digest(salt, password) == <<"pbkdf2", salt, password>>

set_password(password, salt) == [salt |-> salt, digest |-> Digest(salt, password)]

\* Mutant: any submitted password passes the hash check.
check_password_m(user, password) == password # None

\* check_password_hash(self.password_hash, password)
check_password(user, password) ==
    user.password_hash.digest = Digest(user.password_hash.salt, password)

\* User.query.filter_by(email=email).first(): the row's index in users, 0 if none.
FindByEmail(email) ==
    IF \E i \in DOMAIN users : users[i].email = email
    THEN CHOOSE i \in DOMAIN users : users[i].email = email
    ELSE 0

\* load_user(user_id): User.query.get(int(user_id)), 0 if no such row.
load_user(user_id) ==
    IF \E i \in DOMAIN users : users[i].id = user_id
    THEN CHOOSE i \in DOMAIN users : users[i].id = user_id
    ELSE 0

\* current_user.is_authenticated for the browser's cookie.
is_authenticated(c) == session[c] # 0 /\ load_user(session[c]) # 0

\* float(glucose_value) on the texts of GlucoseInputs: digits with at most one
\* point and at least one digit; TypeError on None, ValueError otherwise.
\* The value is <<mantissa, number of fractional digits>>.
RECURSIVE Mantissa(_)
Mantissa(s) ==
    IF s = <<>> THEN 0
    ELSE LET d == s[Len(s)]
             rest == Mantissa(SubSeq(s, 1, Len(s) - 1))
         IN IF d = "." THEN rest
            ELSE 10 * rest + (IF d = "5" THEN 5 ELSE 7)

PointAt(s) ==
    IF \E i \in DOMAIN s : s[i] = "." THEN CHOOSE i \in DOMAIN s : s[i] = "." ELSE 0

ParseOk(s) ==
    /\ s # None
    /\ \A i \in DOMAIN s : s[i] \in Digits \cup {"."}
    /\ Cardinality({i \in DOMAIN s : s[i] = "."}) <= 1
    /\ \E i \in DOMAIN s : s[i] \in Digits

ParseFloat(s) ==
    <<Mantissa(s), IF PointAt(s) = 0 THEN 0 ELSE Len(s) - PointAt(s)>>

\* datetime.utcnow at the insert: the clock never reads earlier than a
\* timestamp it has already given, and may read the same value twice (two
\* inserts within one tick of the clock).
LastTs == IF entries = <<>> THEN 0 ELSE entries[Len(entries)].timestamp

ClockReadings == IF entries = <<>> THEN {1} ELSE {LastTs, LastTs + 1}

\* The reading of a clock that has ticked since the last insert.
LaterReadings == {LastTs + 1}

\* ------------------------------------------------------------- responses

Response(c, route, method, kind, target, flash, rows) ==
    [client |-> c, route |-> route, method |-> method, kind |-> kind,
     target |-> target, flash |-> flash, rows |-> rows]

Redirect(c, route, method, target, flash) ==
    Response(c, route, method, "redirect", target, flash, <<>>)

Render(c, route, method, template, flash, rows) ==
    Response(c, route, method, "render", template, flash, rows)

ServerError(c, route, method) ==
    Response(c, route, method, "error", "500", "", <<>>)

\* Mutant: login_view names the index route instead of the login route.
Unauthorized_m(c, route, method) ==
    Redirect(c, route, method, "index", "Please log in to access this page.")

\* @login_required with login_manager.login_view = "login"
Unauthorized(c, route, method) ==
    Redirect(c, route, method, "login", "Please log in to access this page.")

NoResp == Response("c1", "", "", "", "", "", <<>>)

\* A browser waits for the answer to its register POST before its next request.
Idle(c) == inflight[c] = NoReg

\* --------------------------------------------------------------- queries

\* Mutant: the query orders by timestamp ascending.
Before_m(a, b, tb) ==
    \/ entries[a].timestamp < entries[b].timestamp
    \/ /\ entries[a].timestamp = entries[b].timestamp
       /\ IF tb = "asc" THEN a < b ELSE a > b

\* ORDER BY timestamp DESC: row a is listed before row b.  SQL leaves the
\* order of rows with equal timestamps open; tb is the order the engine takes.
Before(a, b, tb) ==
    \/ entries[a].timestamp > entries[b].timestamp
    \/ /\ entries[a].timestamp = entries[b].timestamp
       /\ IF tb = "asc" THEN a < b ELSE a > b

TieBreaks == {"asc", "desc"}

\* Mutant: the query does not filter by user.
EntriesOf_m(uid) == DOMAIN entries

\* filter_by(user_id=current_user.id): indices of the user's rows.
EntriesOf(uid) == {i \in DOMAIN entries : entries[i].user_id = uid}

\* The rows of sorted with row x put at its place in the order.
RECURSIVE Insert(_, _, _)
Insert(x, sorted, tb) ==
    IF sorted = <<>> \/ Before(x, sorted[1], tb)
    THEN <<x>> \o sorted
    ELSE <<sorted[1]>> \o Insert(x, Tail(sorted), tb)

\* filter_by(user_id=uid).order_by(GlucoseEntry.timestamp.desc()) over the
\* first n rows of the table: the indices of the user's rows, in the order.
RECURSIVE OrderedRows(_, _, _)
OrderedRows(n, uid, tb) ==
    IF n = 0 THEN <<>>
    ELSE IF n \in EntriesOf(uid)
         THEN Insert(n, OrderedRows(n - 1, uid, tb), tb)
         ELSE OrderedRows(n - 1, uid, tb)

\* Mutant: the limit cuts the list at the wrong end and keeps its last 30 rows.
ListRecent_m(uid, tb) ==
    LET all == OrderedRows(Len(entries), uid, tb)
        m == MinOf(Limit, Len(all))
    IN [k \in 1..m |-> entries[all[Len(all) - m + k]].id]

\* GlucoseEntry.query.filter_by(user_id=uid).order_by(timestamp.desc()).limit(30).all()
\* as the sequence of the ids of the rows returned.
ListRecent(uid, tb) ==
    LET all == OrderedRows(Len(entries), uid, tb)
    IN [k \in 1..MinOf(Limit, Len(all)) |-> entries[all[k]].id]

\* ----------------------------------------------------------------- routes

\* Mutant: index() redirects every browser to the login page.
Index_m(c) ==
    /\ Idle(c)
    /\ resp' = Redirect(c, "index", "GET", "login", "")
    /\ UNCHANGED <<users, entries, session, inflight, unseen, loggedOut, posts, registered>>

\* index(): GET /
Index(c) ==
    /\ Idle(c)
    /\ resp' = IF is_authenticated(c)
               THEN Redirect(c, "index", "GET", "dashboard", "")
               ELSE Redirect(c, "index", "GET", "login", "")
    /\ UNCHANGED <<users, entries, session, inflight, unseen, loggedOut, posts, registered>>

\* register(), GET
RegisterGet(c) ==
    /\ Idle(c)
    /\ resp' = IF is_authenticated(c)
               THEN Redirect(c, "register", "GET", "dashboard", "")
               ELSE Render(c, "register", "GET", "register.html", "", <<>>)
    /\ UNCHANGED <<users, entries, session, inflight, unseen, loggedOut, posts, registered>>

\* Mutant: register() does not compare password with confirm.
RegisterInvalid_m(email, password, confirm) ==
    IF Falsy(email) \/ Falsy(password) THEN "Email and password are required." ELSE ""

\* The two form checks of register(): the flash of the first that fails, "" if none.
RegisterInvalid(email, password, confirm) ==
    IF Falsy(email) \/ Falsy(password) THEN "Email and password are required."
    ELSE IF password # confirm THEN "Passwords do not match."
    ELSE ""

\* register(), POST, up to the existence check: the request either is answered
\* here or goes on to build the User row and commit it.
RegisterPost(c, email, password, confirm) ==
    /\ Idle(c)
    /\ IF is_authenticated(c)
       THEN /\ resp' = Redirect(c, "register", "POST", "dashboard", "")
            /\ UNCHANGED inflight
       ELSE IF RegisterInvalid(email, password, confirm) # ""
       THEN /\ resp' = Redirect(c, "register", "POST", "register",
                                RegisterInvalid(email, password, confirm))
            /\ UNCHANGED inflight
       ELSE IF FindByEmail(email) # 0
       THEN /\ resp' = Redirect(c, "register", "POST", "login",
                                "Email already registered. Please log in.")
            /\ UNCHANGED inflight
       ELSE /\ inflight' = [inflight EXCEPT ![c] = [email |-> email, password |-> password]]
            /\ UNCHANGED resp
    /\ UNCHANGED <<users, registered, entries, session, unseen, loggedOut, posts>>

\* Mutant: the email column is not declared unique.
UniqueEmailOk_m(email) == TRUE

\* The UNIQUE constraint on user.email, checked by the engine at the INSERT.
UniqueEmailOk(email) == \A i \in DOMAIN users : users[i].email # email

\* register(), POST: db.session.add(user); db.session.commit() and the response.
\* register() catches nothing: an IntegrityError of the commit leaves the
\* request with the framework's 500 response and the table unchanged.
RegisterCommit(c) ==
    /\ ~Idle(c)
    /\ IF UniqueEmailOk(inflight[c].email)
       THEN /\ users' = Append(users,
                   [id |-> Len(users) + 1,
                    email |-> inflight[c].email,
                    password_hash |-> set_password(inflight[c].password, Salt(Len(users) + 1))])
            /\ registered' = Append(registered, inflight[c].password)
            /\ resp' = Redirect(c, "register", "POST", "login",
                                "Registration successful. Please log in.")
       ELSE /\ resp' = ServerError(c, "register", "POST")
            /\ UNCHANGED <<users, registered>>
    /\ inflight' = [inflight EXCEPT ![c] = NoReg]
    /\ UNCHANGED <<entries, session, unseen, loggedOut, posts>>

\* login(), GET
LoginGet(c) ==
    /\ Idle(c)
    /\ resp' = IF is_authenticated(c)
               THEN Redirect(c, "login", "GET", "dashboard", "")
               ELSE Render(c, "login", "GET", "login.html", "", <<>>)
    /\ UNCHANGED <<users, entries, session, inflight, unseen, loggedOut, posts, registered>>

\* user = User.query.filter_by(email=email).first();
\* user and user.check_password(password): the user's id, 0 if the login fails.
Authenticate(email, password) ==
    LET u == FindByEmail(email)
    IN IF u # 0 /\ check_password(users[u], password) THEN users[u].id ELSE 0

\* login(), POST
LoginPost(c, email, password) ==
    /\ Idle(c)
    /\ IF is_authenticated(c)
       THEN /\ resp' = Redirect(c, "login", "POST", "dashboard", "")
            /\ UNCHANGED <<session, loggedOut>>
       ELSE IF Authenticate(email, password) # 0
       THEN /\ session' = [session EXCEPT ![c] = Authenticate(email, password)]
            /\ loggedOut' = [loggedOut EXCEPT ![c] = FALSE]
            /\ resp' = Redirect(c, "login", "POST", "dashboard", "Logged in successfully.")
       ELSE /\ resp' = Render(c, "login", "POST", "login.html",
                              "Invalid email or password.", <<>>)
            /\ UNCHANGED <<session, loggedOut>>
    /\ UNCHANGED <<users, registered, entries, inflight, unseen, posts>>

\* Mutant: logout() leaves the session as it is.
logout_user_m(c) == session

\* logout_user(): the user id is removed from the browser's session.
logout_user(c) == [session EXCEPT ![c] = 0]

\* logout(): GET /logout
Logout(c) ==
    /\ Idle(c)
    /\ IF is_authenticated(c)
       THEN /\ session' = logout_user(c)
            /\ loggedOut' = [loggedOut EXCEPT ![c] = TRUE]
            /\ resp' = Redirect(c, "logout", "GET", "login", "Logged out.")
       ELSE /\ resp' = Unauthorized(c, "logout", "GET")
            /\ UNCHANGED <<session, loggedOut>>
    /\ UNCHANGED <<users, registered, entries, inflight, unseen, posts>>

\* dashboard(), GET
DashboardGet(c, tb) ==
    /\ Idle(c)
    /\ IF is_authenticated(c)
       THEN /\ resp' = Render(c, "dashboard", "GET", "dashboard.html", "",
                              ListRecent(session[c], tb))
            /\ unseen' = [unseen EXCEPT ![session[c]] = {}]
       ELSE /\ resp' = Unauthorized(c, "dashboard", "GET")
            /\ UNCHANGED unseen
    /\ UNCHANGED <<users, entries, session, inflight, loggedOut, posts, registered>>

\* GlucoseEntry(glucose_value=value, ..., user_id=current_user.id) with the
\* column defaults: id the next key, timestamp the clock reading now.
NewEntry(uid, value, now) ==
    [id |-> Len(entries) + 1, timestamp |-> now, glucose_value |-> value, user_id |-> uid]

\* dashboard(), POST
DashboardPost(c, glucose_value, now) ==
    /\ Idle(c)
    /\ IF ~is_authenticated(c)
       THEN /\ resp' = Unauthorized(c, "dashboard", "POST")
            /\ UNCHANGED <<entries, posts, unseen>>
       ELSE IF ~ParseOk(glucose_value)
       THEN /\ resp' = Redirect(c, "dashboard", "POST", "dashboard",
                                "Please enter a valid number for glucose value.")
            /\ UNCHANGED <<entries, posts, unseen>>
       ELSE /\ posts < MaxPosts
            /\ entries' = Append(entries,
                   NewEntry(users[load_user(session[c])].id, ParseFloat(glucose_value), now))
            /\ posts' = posts + 1
            /\ unseen' = [unseen EXCEPT ![session[c]] = @ \cup {Len(entries) + 1}]
            /\ resp' = Redirect(c, "dashboard", "POST", "dashboard", "Entry saved.")
    /\ UNCHANGED <<users, registered, session, inflight, loggedOut>>

\* --------------------------------------------------------- specifications

EmailInputs == Emails \cup {<<>>}

\* The register forms submitted: <<email, password, confirm>>, every pair of a
\* registrable email and password with the right confirm, and forms with a
\* field absent, empty or mismatched.
RegisterForms ==
    {<<e, p, p>> : e \in Emails, p \in Passwords}
    \cup {<<e, <<"p">>, q>> : e \in Emails, q \in {<<"q">>, <<>>, None}}
    \cup {<<e, <<"p">>, <<"p">>>> : e \in {None, <<>>}}
    \cup {<<<<"a">>, p, p>> : p \in {None, <<>>}}

\* The password a login form submits (a text, possibly empty).
LoginPasswords == Passwords \cup {<<>>}

\* The database after db.create_all(), no browser logged in.
Init ==
    /\ users = <<>>
    /\ entries = <<>>
    /\ session = [c \in Clients |-> 0]
    /\ inflight = [c \in Clients |-> NoReg]
    /\ resp = NoResp
    /\ unseen = [u \in UserIds |-> {}]
    /\ loggedOut = [c \in Clients |-> FALSE]
    /\ posts = 0
    /\ registered = <<>>

Next ==
    \/ \E c \in Clients : Index(c)
    \/ \E c \in Clients : RegisterGet(c)
    \/ \E c \in Clients, f \in RegisterForms : RegisterPost(c, f[1], f[2], f[3])
    \/ \E c \in Clients : RegisterCommit(c)
    \/ \E c \in Clients : LoginGet(c)
    \/ \E c \in Clients, e \in EmailInputs, p \in LoginPasswords : LoginPost(c, e, p)
    \/ \E c \in Clients : Logout(c)
    \/ \E c \in Clients, tb \in TieBreaks : DashboardGet(c, tb)
    \/ \E c \in Clients, g \in GlucoseTexts, now \in LaterReadings : DashboardPost(c, g, now)

Spec == Init /\ [][Next]_vars

\* A database in use: both emails registered, and a glucose_entry table of n
\* rows stored at n successive clock readings, every eighth by the second
\* user, the others by the first.
SeedUsers ==
    << [id |-> 1, email |-> <<"a">>, password_hash |-> set_password(<<"p">>, Salt(1))],
       [id |-> 2, email |-> <<"b">>, password_hash |-> set_password(<<"q">>, Salt(2))] >>

SeedEntries(n) ==
    [i \in 1..n |->
        [id |-> i,
         timestamp |-> i,
         glucose_value |-> <<5, 0>>,
         user_id |-> IF i % 8 = 0 THEN 2 ELSE 1]]

SeedSizes == {0, MaxSeed - 2, MaxSeed}

\* The first browser is logged in as the first user, the second as either
\* user.  Each user either has fetched the dashboard since the user's
\* last entry, or has not fetched it since the user's first.
InitDash ==
    /\ users = SeedUsers
    /\ \E n \in SeedSizes : entries = SeedEntries(n)
    /\ \E u \in UserIds : session = [c \in Clients |-> IF c = "c1" THEN 1 ELSE u]
    /\ inflight = [c \in Clients |-> NoReg]
    /\ resp = NoResp
    /\ \E fresh \in SUBSET UserIds :
          unseen = [u \in UserIds |->
                      IF u \in fresh THEN {}
                      ELSE {i \in DOMAIN entries : entries[i].user_id = u}]
    /\ loggedOut = [c \in Clients |-> FALSE]
    /\ posts = 0
    /\ registered = << <<"p">>, <<"q">> >>

\* The dashboard requests of these browsers.
NextDash ==
    \/ \E c \in Clients, tb \in TieBreaks : DashboardGet(c, tb)
    \/ \E c \in Clients, g \in GlucoseInputs, now \in ClockReadings : DashboardPost(c, g, now)

SpecDash == InitDash /\ [][NextDash]_vars

\* ----------------------------------------------------------------- claims

\* The step is a request of browser c to /dashboard, GET or POST.
DashboardRequest(c) ==
    \/ \E tb \in TieBreaks : DashboardGet(c, tb)
    \/ \E g \in GlucoseInputs, now \in ClockReadings : DashboardPost(c, g, now)

\* C1: a GET or POST to /dashboard from a browser with no login session is
\* answered with a redirect to the login page, renders no entries and leaves
\* the glucose_entry table as it was, whatever requests came before.
C1_DashboardRequiresLogin ==
    [][\A c \in Clients :
          (session[c] = 0 /\ DashboardRequest(c)) =>
              /\ resp'.client = c
              /\ resp'.kind = "redirect"
              /\ resp'.target = "login"
              /\ resp'.rows = <<>>
              /\ entries' = entries]_vars

\* An unauthenticated dashboard POST with a numeric value was redirected to
\* the login page while the table already holds an entry.
C1_Witness ==
    /\ resp.route = "dashboard"
    /\ resp.method = "POST"
    /\ resp.target = "login"
    /\ session[resp.client] = 0
    /\ entries # <<>>

\* The register forms with an email, a password and the same password as confirm.
CompleteForms ==
    {f \in RegisterForms : f[1] \notin {None, <<>>} /\ f[2] \notin {None, <<>>} /\ f[2] = f[3]}

UniqueEmails ==
    \A i \in DOMAIN users : \A j \in DOMAIN users : users[i].email = users[j].email => i = j

\* C2: in every reachable state, also after register requests of two browsers
\* interleaved between check and commit, no two rows of user have the same
\* email; and a register POST that reaches the existence check with an email
\* that is in the table adds no row and redirects to the login page.
C2_UniqueEmail ==
    /\ []UniqueEmails
    /\ [][\A c \in Clients : \A f \in CompleteForms :
             ( /\ session[c] = 0
               /\ \E i \in DOMAIN users : users[i].email = f[1]
               /\ RegisterPost(c, f[1], f[2], f[3]) )
             => /\ users' = users
                /\ inflight' = inflight
                /\ resp'.client = c
                /\ resp'.kind = "redirect"
                /\ resp'.target = "login"]_vars

\* A second registration of an email was turned away to the login page while
\* two users are registered.
C2_Witness ==
    /\ Len(users) = 2
    /\ resp.route = "register"
    /\ resp.flash = "Email already registered. Please log in."
    /\ resp.target = "login"

\* The row of user registered with this email and this password, 0 if none.
RegisteredAs(email, password) ==
    IF \E i \in DOMAIN users : users[i].email = email /\ registered[i] = password
    THEN users[CHOOSE i \in DOMAIN users : users[i].email = email /\ registered[i] = password].id
    ELSE 0

NumericTexts == {<<"5">>, <<"5", ".">>, <<"7", ".", "5">>}

\* The glucose_value fields that are absent or no number.
NonNumericTexts == GlucoseInputs \ NumericTexts

\* A dashboard POST of a logged-in browser with a numeric text appends exactly
\* one row, owned by the browser's user.
OneEntryAdded ==
    \A c \in Clients : \A g \in NumericTexts : \A now \in ClockReadings :
        (session[c] # 0 /\ DashboardPost(c, g, now)) =>
            /\ Len(entries') = Len(entries) + 1
            /\ SubSeq(entries', 1, Len(entries)) = entries
            /\ entries'[Len(entries')].user_id = session[c]

\* C4 as claimed: a dashboard POST by a logged-in user with a numeric
\* glucose_value adds exactly one entry, owned by that user, and the entry is
\* among the entries the user's next dashboard GET renders, however many
\* entries the user has.
C4_Original ==
    [][/\ OneEntryAdded
       /\ \A c \in Clients : \A tb \in TieBreaks :
             (session[c] # 0 /\ DashboardGet(c, tb)) =>
                 \A i \in unseen[session[c]] : entries[i].id \in Range(resp'.rows)]_vars

\* The number of the user's other entries with a timestamp at or after entry i's.
NotOlder(i) ==
    Cardinality({j \in DOMAIN entries :
                    /\ j # i
                    /\ entries[j].user_id = entries[i].user_id
                    /\ entries[j].timestamp >= entries[i].timestamp})

\* C4 amended: the POST adds exactly one entry, owned by that user, and the
\* user's next dashboard GET renders the entry if fewer than 30 other entries
\* of the user have a timestamp equal to or later than its own.
C4_Amended ==
    [][/\ OneEntryAdded
       /\ \A c \in Clients : \A tb \in TieBreaks :
             (session[c] # 0 /\ DashboardGet(c, tb)) =>
                 \A i \in unseen[session[c]] :
                     NotOlder(i) < Limit => entries[i].id \in Range(resp'.rows)]_vars

\* A user with more than 30 entries stored one in this run and then fetched
\* the dashboard, which lists it.
C4_Witness ==
    /\ posts = 1
    /\ resp.route = "dashboard"
    /\ resp.kind = "render"
    /\ entries[Len(entries)].user_id = session[resp.client]
    /\ Cardinality({i \in DOMAIN entries : entries[i].user_id = session[resp.client]}) > Limit
    /\ Len(entries) \in Range(resp.rows)

\* C5: a request that fails form validation changes neither table: a register
\* POST with an empty or absent email or password, or with password different
\* from confirm, creates no user (and goes on to no commit), and a dashboard
\* POST whose glucose_value is absent or not a number creates no entry and
\* redirects to the dashboard.
C5_InvalidFormsChangeNothing ==
    [][\A c \in Clients :
          IF session[c] = 0
          THEN \A f \in RegisterForms \ CompleteForms :
                   RegisterPost(c, f[1], f[2], f[3]) =>
                       /\ users' = users
                       /\ entries' = entries
                       /\ inflight' = inflight
                       /\ resp'.kind = "redirect"
          ELSE \A g \in NonNumericTexts : \A now \in ClockReadings :
                   DashboardPost(c, g, now) =>
                       /\ users' = users
                       /\ entries' = entries
                       /\ resp'.kind = "redirect"
                       /\ resp'.target = "dashboard"]_vars

\* A logged-in browser whose user has an entry posted a glucose_value that is
\* no number and was sent back to the dashboard.
C5_Witness ==
    /\ resp.route = "dashboard"
    /\ resp.method = "POST"
    /\ resp.flash = "Please enter a valid number for glucose value."
    /\ session[resp.client] # 0
    /\ \E i \in DOMAIN entries : entries[i].user_id = session[resp.client]

\* The response is a rendered dashboard.
DashboardShown == resp.route = "dashboard" /\ resp.kind = "render"

\* C6: the list a dashboard GET renders holds only entries of the current
\* user and at most 30 of them; when the user has more than 30, it holds 30
\* and none of the user's entries left out is later than one listed.
C6_OwnEntriesAtMostLimit ==
    DashboardShown =>
        LET uid == session[resp.client]
            own == {i \in DOMAIN entries : entries[i].user_id = uid}
            shown == {i \in DOMAIN entries : entries[i].id \in Range(resp.rows)}
        IN /\ shown \subseteq own
           /\ Len(resp.rows) <= Limit
           /\ Cardinality(shown) = Len(resp.rows)
           /\ Cardinality(own) > Limit =>
                 /\ Len(resp.rows) = Limit
                 /\ \A i \in shown : \A j \in own \ shown :
                       entries[i].timestamp >= entries[j].timestamp

\* A dashboard of 30 entries was rendered to a user who has more, in a table
\* that also holds entries of the other user.
C6_Witness ==
    /\ DashboardShown
    /\ Len(resp.rows) = Limit
    /\ Cardinality({i \in DOMAIN entries : entries[i].user_id = session[resp.client]}) > Limit
    /\ \E i \in DOMAIN entries : entries[i].user_id # session[resp.client]

\* C7 as claimed: the entries a dashboard GET lists are strictly descending
\* by timestamp.
C7_Original ==
    DashboardShown =>
        \A k \in 1..(Len(resp.rows) - 1) :
            entries[resp.rows[k]].timestamp > entries[resp.rows[k + 1]].timestamp

\* C7 amended: the entries a dashboard GET lists are descending by timestamp,
\* entries of equal timestamp (stored within one tick of the clock) next to
\* each other in either order.
C7_Amended ==
    DashboardShown =>
        \A k \in 1..(Len(resp.rows) - 1) :
            entries[resp.rows[k]].timestamp >= entries[resp.rows[k + 1]].timestamp

\* A dashboard lists two entries of equal timestamp above an earlier one.
C7_Witness ==
    /\ DashboardShown
    /\ Len(resp.rows) >= 3
    /\ entries[resp.rows[1]].timestamp = entries[resp.rows[2]].timestamp
    /\ entries[resp.rows[2]].timestamp > entries[resp.rows[3]].timestamp

\* C8: a logout ends the browser's session and changes no row and no other
\* browser's session; from then until the browser's next successful login
\* its requests to /dashboard, /logout and / redirect to the login page, and
\* only a login POST with registered credentials ends that period.
C8_LogoutEndsSession ==
    [][\A c \in Clients :
          /\ (session[c] # 0 /\ Logout(c)) =>
                 /\ session'[c] = 0
                 /\ \A d \in Clients \ {c} : session'[d] = session[d]
                 /\ users' = users
                 /\ entries' = entries
                 /\ resp'.target = "login"
          /\ (loggedOut[c] /\ (DashboardRequest(c) \/ Logout(c) \/ Index(c))) =>
                 /\ resp'.client = c
                 /\ resp'.kind = "redirect"
                 /\ resp'.target = "login"
                 /\ session' = session
                 /\ entries' = entries
          /\ (loggedOut[c] /\ session'[c] # 0) =>
                 \E e \in Emails : \E p \in Passwords :
                     /\ LoginPost(c, e, p)
                     /\ RegisteredAs(e, p) = session'[c]]_vars

\* After its logout a browser asked for the dashboard and was redirected to
\* the login page, while the other browser is still logged in.
C8_Witness ==
    \E c \in Clients :
        /\ loggedOut[c]
        /\ resp.client = c
        /\ resp.route = "dashboard"
        /\ resp.target = "login"
        /\ \E d \in Clients \ {c} : session[d] # 0

\* C9: GET / redirects to the dashboard when the browser has a login session
\* and to the login page otherwise, and changes neither the sessions nor the
\* tables.
C9_IndexPureRouting ==
    [][\A c \in Clients :
          Index(c) =>
              /\ resp'.client = c
              /\ resp'.kind = "redirect"
              /\ resp'.target = (IF session[c] # 0 THEN "dashboard" ELSE "login")
              /\ UNCHANGED <<users, entries, session, inflight>>]_vars

\* GET / of a logged-in browser was redirected to the dashboard.
C9_Witness ==
    /\ resp.route = "index"
    /\ resp.target = "dashboard"
    /\ session[resp.client] # 0

\* C10 as claimed: a register POST answered while its email is in the user
\* table, be it at the existence check or at the commit of a request that
\* passed the check before another one committed, gets the warning and the
\* redirect to the login page, never an unhandled error, and mutates nothing.
C10_ConflictHandled ==
    [][\A c \in Clients :
          /\ (RegisterCommit(c) /\ \E i \in DOMAIN users : users[i].email = inflight[c].email) =>
                 /\ users' = users
                 /\ resp'.kind = "redirect"
                 /\ resp'.target = "login"
                 /\ resp'.flash = "Email already registered. Please log in."
          /\ resp'.kind # "error"]_vars

====
